---- MODULE Spec2Model ----
(***************************************************************************)
(* Model of the pdf-to-md document pipeline (DocumentService.process_pdf   *)
(* driven by the background worker of server.py) and of the markdown       *)
(* algorithms of MarkdownService (structural scan, cutoff detection,       *)
(* hierarchical chunker).                                                  *)
(*                                                                         *)
(* A text is a sequence of lines.  A line is a record                      *)
(*   [kind, lvl, txt, ind]                                                 *)
(* kind : "text" | "header" | "table" | "fence" | "blank" | "prose" |      *)
(*        "filename" | "clean" | "raise" | "error"                         *)
(* lvl  : number of leading '#' of a header line (0 otherwise)             *)
(* txt  : the rest of the line                                             *)
(* ind  : TRUE when the line has leading whitespace                        *)
(* so that str.startswith and str.strip are computed, not assumed.         *)
(***************************************************************************)
EXTENDS Integers, Sequences, FiniteSets, TLC

\* ------------------------------------------------------------- bounds
MaxLen == 5      \* longest markdown text handed to the chunker
MaxLevel == 2    \* deepest header level in the drawn texts
NTxt == 2        \* distinct line contents per kind
MaxPages == 3    \* most pages the rasterizer yields for the document
MaxSteps == 2    \* longest processing_steps list of a request
MaxRuns == 2     \* requests made for the document

\* ------------------------------------------------------------- lines
Line(k, l, t, i) == [kind |-> k, lvl |-> l, txt |-> t, ind |-> i]

HeaderLines == {Line("header", l, t, FALSE) : l \in 1..MaxLevel, t \in 1..NTxt}

\* body lines; the even contents carry leading whitespace
BodyLines == {Line("text", 0, t, (t % 2) = 0) : t \in 1..NTxt}

ChunkerLines == HeaderLines \cup BodyLines

FILENAME == Line("filename", 0, 0, FALSE)

\* line.startswith("#")
StartsWithHash(line) == line.kind = "header" /\ ~line.ind

\* line.startswith("|")
StartsWithPipe(line) == line.kind = "table" /\ ~line.ind

\* line.strip()
Strip(line) == [line EXCEPT !.ind = FALSE]

\* count_consecutive_chars(line, 0, "#")[0] for a line that starts with '#'
count_consecutive_chars(line) == line.lvl

\* re.sub(r'\W+', ' ', title).strip(): the '#' run and the indentation go
clean_title(title) == Line("clean", 0, title.txt, FALSE)

StripAll(text) == [i \in 1..Len(text) |-> Strip(text[i])]

\* ------------------------------------------------ insertion-ordered dict
\* A Python dict keeps its keys in insertion order: a sequence of entries.
DictHas(m, k) == \E i \in 1..Len(m) : m[i].key = k

DictGet(m, k) == (CHOOSE i \in 1..Len(m) : m[i].key = k)

\* m[k] = v : an existing key keeps its place
DictSet(m, k, v) ==
    IF DictHas(m, k)
    THEN [i \in 1..Len(m) |-> IF m[i].key = k THEN [key |-> k, val |-> v] ELSE m[i]]
    ELSE Append(m, [key |-> k, val |-> v])

\* m.values()
DictValues(m) == [i \in 1..Len(m) |-> m[i].val]

\* for key in [key for key in m if key > level]: m.pop(key)
DictPopAbove(m, level) == SelectSeq(m, LAMBDA e : e.key <= level)

\* ------------------------------------------------------------- chunker
\* the locals of convert_markdown_to_chunks before the loop
ChunkInit(filename) ==
    [header_map |-> <<>>,
     current_chunk |-> <<filename>>,
     chunks |-> <<>>,
     chunk_titles |-> <<>>]

\* "More lines than just the context, +1 for filename"
MoreThanContext(st) == Len(st.current_chunk) > Len(st.header_map) + 1

\* the header branch for a level <= cutoff, after header_map was updated
ChunkHeaderAtCutoff(st, line, filename) ==
    LET first == Len(st.chunks) = 0 /\ Len(st.chunk_titles) = 0
        s1 == IF first
              THEN [st EXCEPT !.current_chunk = Append(@, Strip(line)),
                              !.chunk_titles = Append(@, Strip(line))]
              ELSE st
    IN  IF MoreThanContext(s1)
        THEN LET hm == DictPopAbove(s1.header_map, count_consecutive_chars(line))
             IN  [header_map |-> hm,
                  current_chunk |-> <<filename>> \o DictValues(hm),
                  chunks |-> Append(s1.chunks, s1.current_chunk),
                  chunk_titles |-> Append(s1.chunk_titles, Strip(line))]
        ELSE s1

\* one iteration of "for line in lines"
ChunkLine(st, line, filename, cutoff) ==
    IF StartsWithHash(line)
    THEN LET level == count_consecutive_chars(line)
             s0 == [st EXCEPT !.header_map = DictSet(@, level, Strip(line))]
         IN  IF level > cutoff
             THEN [s0 EXCEPT !.current_chunk = Append(@, Strip(line))]
             ELSE ChunkHeaderAtCutoff(s0, line, filename)
    ELSE [st EXCEPT !.current_chunk = Append(@, Strip(line))]

\* after the loop: the leftover chunk, the joined texts, the clean titles
ChunkFinish(st) ==
    LET chunks == IF MoreThanContext(st)
                  THEN Append(st.chunks, st.current_chunk)
                  ELSE st.chunks
    IN  [chunk_texts |-> chunks,
         chunk_titles |-> st.chunk_titles,
         clean_chunk_titles |->
             [i \in 1..Len(st.chunk_titles) |-> clean_title(st.chunk_titles[i])]]

RECURSIVE ChunkWalk(_, _, _, _)
ChunkWalk(st, text, filename, cutoff) ==
    IF text = <<>> THEN st
    ELSE ChunkWalk(ChunkLine(st, Head(text), filename, cutoff),
                   Tail(text), filename, cutoff)

convert_markdown_to_chunks(filename, markdown_text, header_level_cutoff) ==
    ChunkFinish(ChunkWalk(ChunkInit(filename), markdown_text,
                          filename, header_level_cutoff))

\* ----------------------------------------------------- structural scan
\* "s and not s.strip()": a non-empty text of blank lines only
IsBlankText(text) == text # <<>> /\ \A i \in 1..Len(text) : text[i].kind = "blank"

\* the loop body that closes the block after every row
ScanLine_BlockPerRow(st, line) ==
    LET s1 == IF StartsWithHash(line)
              THEN [st EXCEPT !.headers = Append(@, Strip(line))]
              ELSE st
    IN  IF StartsWithPipe(line)
        THEN [s1 EXCEPT !.is_currently_table = TRUE,
                        !.tables = Append(@, <<Strip(line)>>)]
        ELSE [s1 EXCEPT !.is_currently_table = FALSE]

\* one iteration of the loop of get_markdown_headers_and_tables
ScanLine(st, line) ==
    LET s1 == IF StartsWithHash(line)
              THEN [st EXCEPT !.headers = Append(@, Strip(line))]
              ELSE st
        s2 == IF StartsWithPipe(line)
              THEN [s1 EXCEPT !.is_currently_table = TRUE,
                              !.lines_with_pipe = Append(@, Strip(line))]
              ELSE s1
    IN  IF Len(s2.lines_with_pipe) > 0 /\ ~StartsWithPipe(line)
        THEN [s2 EXCEPT !.is_currently_table = FALSE,
                        !.tables = Append(@, s2.lines_with_pipe),
                        !.lines_with_pipe = <<>>]
        ELSE s2

RECURSIVE ScanWalk(_, _)
ScanWalk(st, text) ==
    IF text = <<>> THEN st ELSE ScanWalk(ScanLine(st, Head(text)), Tail(text))

\* (headers, tables, is_currently_table) of a text that is not blank
get_markdown_headers_and_tables(text) ==
    LET st == ScanWalk([headers |-> <<>>, tables |-> <<>>,
                        lines_with_pipe |-> <<>>, is_currently_table |-> FALSE], text)
    IN  [headers |-> st.headers,
         tables |-> IF Len(st.lines_with_pipe) > 0
                    THEN Append(st.tables, st.lines_with_pipe)
                    ELSE st.tables,
         is_table |-> st.is_currently_table]

\* drops the lines whose first non-space character is the fence character
remove_lines_starting_with(text) ==
    StripAll(SelectSeq(text, LAMBDA line : line.kind # "fence"))

\* the loop of replace_tables without its is_table flag: every table row
\* takes the next prose string
ReplaceLine_EveryRow(st, line, table_texts) ==
    IF StartsWithPipe(line) /\ st.i < Len(table_texts)
    THEN [out |-> st.out \o table_texts[st.i + 1], i |-> st.i + 1, is_table |-> TRUE]
    ELSE [st EXCEPT !.is_table = FALSE, !.out = Append(@, Strip(line))]

\* one iteration of the loop of replace_tables; st = [out, i, is_table]
ReplaceLine(st, line, table_texts) ==
    IF StartsWithPipe(line) /\ ~st.is_table /\ st.i < Len(table_texts)
    THEN [out |-> st.out \o table_texts[st.i + 1], i |-> st.i + 1, is_table |-> TRUE]
    ELSE IF StartsWithPipe(line) /\ st.is_table
         THEN st
         ELSE [st EXCEPT !.is_table = FALSE, !.out = Append(@, Strip(line))]

RECURSIVE ReplaceWalk(_, _, _)
ReplaceWalk(st, text, table_texts) ==
    IF text = <<>> THEN st
    ELSE ReplaceWalk(ReplaceLine(st, Head(text), table_texts), Tail(text), table_texts)

replace_tables(markdown_text, table_texts) ==
    ReplaceWalk([out |-> <<>>, i |-> 0, is_table |-> FALSE],
                markdown_text, table_texts).out

\* correct_header_levels: the reply of the text model without its fence
\* lines, line by line, each line stripped
correct_header_levels(headers, new_headers, new_new_headers) ==
    StripAll(remove_lines_starting_with(new_new_headers))

\* ------------------------------------------------------ cutoff detection
\* header_counts after the first loop of get_header_level_cutoff
RECURSIVE HeaderCounts(_, _)
HeaderCounts(counts, text) ==
    IF text = <<>> THEN counts
    ELSE LET line == Head(text)
             level == count_consecutive_chars(line)
             c == IF ~StartsWithHash(line) THEN counts
                  ELSE IF DictHas(counts, level)
                       THEN DictSet(counts, level, counts[DictGet(counts, level)].val + 1)
                       ELSE DictSet(counts, level, 1)
         IN  HeaderCounts(c, Tail(text))

\* the second loop with <= for <: the last level of the highest count wins
RECURSIVE PickCutoff_LastMax(_, _, _)
PickCutoff_LastMax(items, cutoff, cutoff_count) ==
    IF items = <<>> THEN cutoff
    ELSE IF cutoff_count <= Head(items).val
         THEN PickCutoff_LastMax(Tail(items), Head(items).key, Head(items).val)
         ELSE PickCutoff_LastMax(Tail(items), cutoff, cutoff_count)

\* the second loop: the first level whose count exceeds every earlier one
RECURSIVE PickCutoff(_, _, _)
PickCutoff(items, cutoff, cutoff_count) ==
    IF items = <<>> THEN cutoff
    ELSE IF cutoff_count < Head(items).val
         THEN PickCutoff(Tail(items), Head(items).key, Head(items).val)
         ELSE PickCutoff(Tail(items), cutoff, cutoff_count)

get_header_level_cutoff(aggregated_text) ==
    PickCutoff(HeaderCounts(<<>>, aggregated_text), 0, 0)

\* MarkdownProcessor.convert_text_to_chunks with header_level_cutoff=None
convert_text_to_chunks(filename, aggregated_text) ==
    convert_markdown_to_chunks(filename, aggregated_text,
                               get_header_level_cutoff(aggregated_text))


\* ------------------------------------------------------------- state
VARIABLES
    doc,         \* the ProcessedFile row: status, error_message, aggregated_text
    pages,       \* the ExtractedImage rows of the document, by page_number
    chunks,      \* the TextChunk rows of the document, in creation order
    run,         \* the locals of the worker and of process_pdf, and what the
                 \* run has written and called so far
    other,       \* the same locals of a second worker thread of the pool,
                 \* while that thread is not the one taking steps
    ck_text,     \* markdown_text of the chunker call under study
    ck_cutoff,   \* its header_level_cutoff
    ck_pos,      \* number of lines the loop has consumed
    ck,          \* the chunker's locals (header_map, current_chunk, ...)
    ck_seed,     \* length of current_chunk when it was last seeded
    ck_out,      \* the returned triple, or NoValue while walking
    fn_args,     \* the arguments of the processor function under study
    fn_ret       \* what it returned, or NoValue before it returns

storeVars == <<doc, pages, chunks>>
pipeVars == <<doc, pages, chunks, run, other>>
ckVars == <<ck_text, ck_cutoff, ck_pos, ck, ck_seed, ck_out>>
fnVars == <<fn_args, fn_ret>>
vars == <<doc, pages, chunks, run, other, ck_text, ck_cutoff, ck_pos, ck, ck_seed, ck_out,
         fn_args, fn_ret>>

\* Python's None, and a value that is present
NoValue == [none |-> TRUE]
Some(x) == [none |-> FALSE, val |-> x]

Range(f) == {f[i] : i \in DOMAIN f}

RECURSIVE SeqsUpTo(_, _)
SeqsUpTo(S, n) ==
    IF n = 0 THEN {<<>>}
    ELSE LET shorter == SeqsUpTo(S, n - 1)
         IN  shorter \cup {Append(s, x) : s \in {t \in shorter : Len(t) = n - 1}, x \in S}

\* ---------------------------------------------------- pipeline: store
\* ProcessedFile as created by the upload endpoint
NewDocument == [status |-> "PENDING", error_message |-> NoValue, aggregated_text |-> NoValue]

\* ExtractedImage as created by bulk_create_extracted_images
NewPage(n) ==
    [page_number |-> n, refined_ocr_text |-> NoValue, headers |-> NoValue,
     tables |-> NoValue, is_table |-> NoValue]

\* the locals before any request was made
IdleRun ==
    [pc |-> "idle", runs |-> 0, steps |-> <<>>, stage |-> 1,
     images |-> NoValue, index |-> 0,
     current_headers |-> <<>>, current_tables |-> <<>>, current_is_table |-> FALSE,
     exc |-> NoValue, complete_text |-> <<>>, result |-> NoValue,
     status_log |-> <<>>, stage_log |-> <<>>, ocr_calls |-> <<>>, refined_log |-> <<>>,
     files_written |-> <<>>, result_chunks |-> NoValue,
     rendered |-> NoValue, chunks_before |-> <<>>, reconciler_calls |-> <<>>]

PipelineIdle ==
    /\ doc = NewDocument
    /\ pages = <<>>
    /\ chunks = <<>>
    /\ run = IdleRun
    /\ other = IdleRun

CallIdle ==
    /\ fn_args = NoValue
    /\ fn_ret = NoValue

ChunkerIdle ==
    /\ ck_text = <<>>
    /\ ck_cutoff = 0
    /\ ck_pos = 0
    /\ ck = ChunkInit(FILENAME)
    /\ ck_seed = 1
    /\ ck_out = NoValue

\* --------------------------------------------- chunker, line by line
ChunkerInit ==
    /\ PipelineIdle
    /\ CallIdle
    /\ ck_text \in SeqsUpTo(ChunkerLines, MaxLen)
    /\ ck_cutoff \in 0..MaxLevel
    /\ ck_pos = 0
    /\ ck = ChunkInit(FILENAME)
    /\ ck_seed = 1
    /\ ck_out = NoValue

\* the loop body on the next line of the text
ChunkerStep ==
    /\ ck_out = NoValue
    /\ ck_pos >= 0
    /\ ck_pos < Len(ck_text)
    /\ LET line == ck_text[ck_pos + 1]
           nxt == ChunkLine(ck, line, FILENAME, ck_cutoff)
           firstTitle == /\ StartsWithHash(line)
                         /\ count_consecutive_chars(line) <= ck_cutoff
                         /\ Len(ck.chunks) = 0 /\ Len(ck.chunk_titles) = 0
       IN  /\ ck' = nxt
           /\ ck_seed' = IF Len(nxt.chunks) > Len(ck.chunks)
                         THEN Len(nxt.current_chunk)
                         ELSE IF firstTitle THEN ck_seed + 1 ELSE ck_seed
    /\ ck_pos' = ck_pos + 1
    /\ UNCHANGED <<ck_text, ck_cutoff, ck_out>>
    /\ UNCHANGED <<pipeVars, fnVars>>

\* end of input: the function returns
ChunkerReturn ==
    /\ ck_out = NoValue
    /\ ck_pos = Len(ck_text)
    /\ ck_out' = ChunkFinish(ck)
    /\ UNCHANGED <<ck_text, ck_cutoff, ck_pos, ck, ck_seed>>
    /\ UNCHANGED <<pipeVars, fnVars>>

ChunkerNext == ChunkerStep \/ ChunkerReturn

SpecChunker == ChunkerInit /\ [][ChunkerNext]_vars

\* ------------------------- chunker behind the automatic cutoff detection
\* convert_text_to_chunks is called without a cutoff; ck_pos = -1 until the
\* cutoff has been detected
AutoChunkInit ==
    /\ PipelineIdle
    /\ CallIdle
    /\ ck_text \in SeqsUpTo(ChunkerLines, MaxLen)
    /\ ck_cutoff = 0
    /\ ck_pos = -1
    /\ ck = ChunkInit(FILENAME)
    /\ ck_seed = 1
    /\ ck_out = NoValue

\* "if not header_level_cutoff:" the cutoff is detected from the text
DetectCutoff ==
    /\ ck_pos = -1
    /\ ck_cutoff' = get_header_level_cutoff(ck_text)
    /\ ck_pos' = 0
    /\ UNCHANGED <<ck_text, ck, ck_seed, ck_out>>
    /\ UNCHANGED <<pipeVars, fnVars>>

AutoChunkNext == DetectCutoff \/ ChunkerStep \/ ChunkerReturn

SpecAutoChunk == AutoChunkInit /\ [][AutoChunkNext]_vars

\* ------------------------------------------------- header reconciler
MaxHeaders == 2
MaxReply == 3

\* the lines a reply of the text model is made of
ReplyLines == HeaderLines \cup {Line("fence", 0, 0, FALSE), Line("text", 0, 1, TRUE)}

ReconcilerInit ==
    /\ PipelineIdle
    /\ ChunkerIdle
    /\ fn_args \in [headers : SeqsUpTo(HeaderLines, 1),
                    new_headers : SeqsUpTo(HeaderLines, MaxHeaders),
                    completion : SeqsUpTo(ReplyLines, MaxReply)]
    /\ fn_ret = NoValue

\* the call returns
correct_header_levels_return ==
    /\ fn_ret = NoValue
    /\ fn_ret' = Some(correct_header_levels(fn_args.headers, fn_args.new_headers,
                                            fn_args.completion))
    /\ UNCHANGED <<pipeVars, ckVars, fn_args>>

SpecReconciler == ReconcilerInit /\ [][correct_header_levels_return]_vars

\* --------------------------------------------------- structural scanner
\* the lines of a scanned text: headers, rows, both also indented, body
\* lines and whitespace-only lines
ScanLines ==
    {Line("header", 1, 1, FALSE), Line("header", 2, 1, TRUE),
     Line("table", 0, 1, FALSE), Line("table", 0, 2, FALSE), Line("table", 0, 1, TRUE),
     Line("text", 0, 1, FALSE), Line("blank", 0, 0, FALSE)}

ScanInit ==
    /\ PipelineIdle
    /\ ChunkerIdle
    /\ fn_args \in [s : SeqsUpTo(ScanLines, MaxLen)]
    /\ fn_ret = NoValue

\* the call raises ValueError for a text of whitespace only, or returns
get_markdown_headers_and_tables_return ==
    /\ fn_ret = NoValue
    /\ fn_ret' = IF IsBlankText(fn_args.s)
                 THEN Some([raised |-> "ValueError"])
                 ELSE Some(get_markdown_headers_and_tables(fn_args.s))
    /\ UNCHANGED <<pipeVars, ckVars, fn_args>>

SpecScan == ScanInit /\ [][get_markdown_headers_and_tables_return]_vars

\* --------------------------------------------------- table normalizer
MaxProse == 2

\* the lines of a text with tables: rows, an indented row, other lines
TableTextLines ==
    {Line("table", 0, 1, FALSE), Line("table", 0, 2, FALSE), Line("table", 0, 1, TRUE),
     Line("text", 0, 1, FALSE), Line("text", 0, 2, TRUE)}

\* the prose strings the text model made of the tables
ProseStrings == {<<Line("prose", 0, t, FALSE)>> : t \in 1..MaxProse}

ReplaceTablesInit ==
    /\ PipelineIdle
    /\ ChunkerIdle
    /\ fn_args \in [markdown_text : SeqsUpTo(TableTextLines, MaxLen),
                    table_texts : SeqsUpTo(ProseStrings, MaxProse)]
    /\ fn_ret = NoValue

\* the call returns
replace_tables_return ==
    /\ fn_ret = NoValue
    /\ fn_ret' = Some(replace_tables(fn_args.markdown_text, fn_args.table_texts))
    /\ UNCHANGED <<pipeVars, ckVars, fn_args>>

SpecReplaceTables == ReplaceTablesInit /\ [][replace_tables_return]_vars

\* ------------------------------------------------- pipeline: requests
\* the ProcessingStep enum
ProcessingSteps == {"scan", "ocr", "aggregate", "chunk", "complete"}

\* the if-blocks with Chunk placed before Aggregate
STAGE_ORDER_ChunkFirst == <<"scan", "ocr", "chunk", "aggregate">>

\* the order of the four if-blocks of process_pdf
STAGE_ORDER == <<"scan", "ocr", "aggregate", "chunk">>

\* run_scan or run_all, run_ocr or run_all, ...
Wants(steps, stage) == stage \in Range(steps) \/ "complete" \in Range(steps)

\* setattr of the fields that were set on the update object (exclude_unset)
update_processed_file(db_file, update_data) ==
    [k \in DOMAIN db_file |->
        IF k \in DOMAIN update_data THEN update_data[k] ELSE db_file[k]]


\* _bulk_delete_and_commit: the rows are deleted and True is returned, or the
\* store raises, the session is rolled back and False is returned; the value
\* is the rows that remain
bulk_delete_and_commit(db_objs) == {<<>>, db_objs}

\* a status write made by process_pdf, kept in the run's log
WriteStatus(r, status) == [r EXCEPT !.status_log = Append(@, status)]

\* entering one of the four stage functions
EnterStage(r, stage) == [r EXCEPT !.stage_log = Append(@, stage)]

\* an exception leaving process_pdf
Raise(r, e) == [r EXCEPT !.pc = "raise", !.exc = Some(e)]

\* falling through to the next if-block
NextBlock(r) == [r EXCEPT !.pc = "gate", !.stage = @ + 1]

AtBlock(stage) ==
    /\ run.pc = "gate"
    /\ run.stage <= Len(STAGE_ORDER)
    /\ STAGE_ORDER[run.stage] = stage

\* "\n".join(texts) of texts that are not empty
RECURSIVE JoinTexts(_)
JoinTexts(texts) == IF texts = <<>> THEN <<>> ELSE Head(texts) \o JoinTexts(Tail(texts))

\* PUT /v1/documents/pdfs/{file_id}: the task is added, the status queued
process_pdf_document(steps) ==
    /\ run.pc = "idle"
    /\ run.runs < MaxRuns
    /\ doc' = update_processed_file(doc, [status |-> "QUEUED_FOR_PROCESSING"])
    /\ run' = [IdleRun EXCEPT !.pc = "queued", !.runs = run.runs + 1, !.steps = steps]
    /\ UNCHANGED <<pages, chunks>>
    /\ UNCHANGED <<other, ckVars, fnVars>>

\* the request's provider and output_type are supported (params.provider is
\* None unless given, and only "openrouter" and "md" are known) or not
SupportedParams == BOOLEAN

\* the background task starts: LlmService and the processor are created
\* before the try block, so an unsupported provider or output type ends the
\* task with the exception; otherwise process_pdf is called
background_pdf_processing_worker ==
    /\ run.pc = "queued"
    /\ \E supported \in SupportedParams :
          run' = IF supported
                 THEN [run EXCEPT !.pc = "gate", !.stage = 1]
                 ELSE [run EXCEPT !.pc = "idle", !.result = Some("crashed")]
    /\ UNCHANGED storeVars
    /\ UNCHANGED <<other, ckVars, fnVars>>

\* an if-block whose stage was not requested
process_pdf_skip ==
    /\ run.pc = "gate"
    /\ run.stage <= Len(STAGE_ORDER)
    /\ ~Wants(run.steps, STAGE_ORDER[run.stage])
    /\ run' = NextBlock(run)
    /\ UNCHANGED storeVars
    /\ UNCHANGED <<other, ckVars, fnVars>>

\* process_pdf returns normally to the worker
process_pdf_return ==
    /\ run.pc = "gate"
    /\ run.stage > Len(STAGE_ORDER)
    /\ run' = [run EXCEPT !.pc = "idle", !.result = Some("returned")]
    /\ UNCHANGED storeVars
    /\ UNCHANGED <<other, ckVars, fnVars>>

\* an except clause that records the message but not the status
WorkerFailure_MessageOnly(e) == [error_message |-> Some(e)]

\* the fields the worker's except clause writes
WorkerFailure(e) == [status |-> "FAILED", error_message |-> Some(e)]

\* except Exception as e: in the worker
background_pdf_processing_worker_except ==
    /\ run.pc = "raise"
    /\ doc' = update_processed_file(doc, WorkerFailure(run.exc.val))
    /\ run' = [run EXCEPT !.pc = "idle", !.result = Some("failed")]
    /\ UNCHANGED <<pages, chunks>>
    /\ UNCHANGED <<other, ckVars, fnVars>>

\* ------------------------------------------------------ pipeline: scan
\* convert_to_images up to the rasterizer call: the status is written and the
\* old pages are deleted; the result of the deletion is not looked at
convert_to_images ==
    /\ AtBlock("scan")
    /\ Wants(run.steps, "scan")
    /\ doc' = update_processed_file(doc, [status |-> "IMAGE_EXTRACTION_IN_PROGRESS"])
    /\ \E remaining \in bulk_delete_and_commit(pages) : pages' = remaining
    /\ run' = [WriteStatus(EnterStage(run, "scan"), "IMAGE_EXTRACTION_IN_PROGRESS")
                  EXCEPT !.pc = "scan_render"]
    /\ UNCHANGED chunks
    /\ UNCHANGED <<other, ckVars, fnVars>>

\* the rasterization collaborator returns the images of the pages, in order
convert_pdf_to_images == 0..MaxPages

\* image_path is unique: the image of a page has the same path in every scan
UniqueImagePaths(rows, k) == rows = <<>> \/ k = 0

\* the rasterizer yields k images; one page row each, numbered from 1, is
\* added to the store (bulk create is skipped for k = 0)
convert_to_images_created ==
    /\ run.pc = "scan_render"
    /\ \E k \in convert_pdf_to_images :
          IF ~UniqueImagePaths(pages, k)
          THEN /\ run' = Raise([run EXCEPT !.rendered = Some(k)], "IntegrityError")
               /\ UNCHANGED <<doc, pages>>
          ELSE /\ pages' = pages \o [i \in 1..k |-> NewPage(i)]
               /\ run' = NextBlock([WriteStatus(run, "IMAGES_EXTRACTED")
                                       EXCEPT !.images = Some([i \in 1..k |-> i]),
                                              !.rendered = Some(k)])
               /\ doc' = update_processed_file(doc, [status |-> "IMAGES_EXTRACTED"])
    /\ UNCHANGED chunks
    /\ UNCHANGED <<other, ckVars, fnVars>>

\* ------------------------------------------------------- pipeline: ocr
\* the page numbers of the document's rows, order_by page_number
get_extracted_images_for_file == [i \in 1..Len(pages) |-> pages[i].page_number]

\* "if not images_to_process and file_to_process:" then the load from the store
ImagesOrStored(images) == IF images = <<>> THEN get_extracted_images_for_file ELSE images

\* raw replies of the image model (the text before call_ocr filters it)
Responses ==
    { <<Line("fence", 0, 0, FALSE), Line("header", 1, 1, FALSE),
        Line("text", 0, 2, TRUE), Line("fence", 0, 0, TRUE)>>,
      <<Line("header", 2, 1, FALSE), Line("text", 0, 1, FALSE)>>,
      <<Line("text", 0, 1, FALSE)>>,
      <<Line("table", 0, 1, FALSE), Line("table", 0, 2, FALSE),
        Line("text", 0, 1, FALSE)>> }

\* the image model either replies or the completion call raises
CompletionFailure == <<Line("raise", 0, 0, FALSE)>>

\* refine_headers: the reconciler is commented out, both branches take the
\* scan; reconciled lists the calls of correct_header_levels it makes
refine_headers(input_text, headers) ==
    LET scan == get_markdown_headers_and_tables(input_text)
    IN  [text |-> input_text, headers |-> scan.headers,
         tables |-> scan.tables, is_table |-> scan.is_table,
         reconciled |-> <<>>]

\* ExtractedImageUpdate accepts tables only as a flat list of strings
ValidTables(tables) == tables = <<>>

\* update_extracted_image with all six fields set
update_extracted_image(db_image, refined) ==
    [db_image EXCEPT !.refined_ocr_text = Some(refined.text),
                     !.headers = Some(refined.headers),
                     !.tables = Some(refined.tables),
                     !.is_table = Some(refined.is_table)]

\* a loop that never hands the page's snapshot to the next page
NextContext_NotThreaded(image) ==
    [headers |-> <<>>, tables |-> <<>>, is_table |-> FALSE]

\* current_headers, current_tables, current_is_table = image.headers, ...
NextContext(image) ==
    [headers |-> image.headers.val, tables |-> image.tables.val,
     is_table |-> image.is_table.val]

\* the if-block of process_pdf and get_ocr_of_images up to its loop
get_ocr_of_images ==
    /\ AtBlock("ocr")
    /\ Wants(run.steps, "ocr")
    /\ IF run.images = NoValue
       THEN /\ run' = Raise(run, "UnboundLocalError")
            /\ UNCHANGED doc
       ELSE LET images == ImagesOrStored(run.images.val)
            IN  IF images = <<>>
                THEN /\ run' = Raise(run, "AssertionError")
                     /\ UNCHANGED doc
                ELSE /\ doc' = update_processed_file(doc, [status |-> "OCR_IN_PROGRESS"])
                     /\ run' = [WriteStatus(EnterStage(run, "ocr"), "OCR_IN_PROGRESS")
                                   EXCEPT !.pc = "ocr_loop", !.images = Some(images),
                                          !.index = 0, !.current_headers = <<>>,
                                          !.current_tables = <<>>,
                                          !.current_is_table = FALSE]
    /\ UNCHANGED <<pages, chunks>>
    /\ UNCHANGED <<other, ckVars, fnVars>>

\* process_image issues the completion call for the next image of the loop
call_ocr ==
    /\ run.pc = "ocr_loop"
    /\ run.index < Len(run.images.val)
    /\ LET n == run.images.val[run.index + 1]
       IN  run' = [run EXCEPT !.pc = "ocr_reply",
                      !.ocr_calls = Append(@,
                          [page_number |-> n,
                           headers |-> run.current_headers,
                           tables |-> run.current_tables,
                           is_table |-> run.current_is_table,
                           stored |-> pages])]
    /\ UNCHANGED storeVars
    /\ UNCHANGED <<other, ckVars, fnVars>>

\* the call ends: it raises, or the reply is filtered, scanned and persisted
process_image ==
    /\ run.pc = "ocr_reply"
    /\ \E response \in Responses \cup {CompletionFailure} :
          LET n == run.images.val[run.index + 1]
              ocr_response == remove_lines_starting_with(response)
              refined == refine_headers(ocr_response, run.current_headers)
              image == update_extracted_image(pages[n], refined)
              context == NextContext(image)
          IN  IF response = CompletionFailure
              THEN /\ run' = Raise(run, "CompletionError")
                   /\ UNCHANGED pages
              ELSE IF IsBlankText(ocr_response)
              THEN /\ run' = Raise(run, "ValueError")
                   /\ UNCHANGED pages
              ELSE IF ~ValidTables(refined.tables)
              THEN /\ run' = Raise(run, "ValidationError")
                   /\ UNCHANGED pages
              ELSE /\ pages' = [pages EXCEPT ![n] = image]
                   /\ run' = [run EXCEPT !.pc = "ocr_loop", !.index = @ + 1,
                                 !.current_headers = context.headers,
                                 !.current_tables = context.tables,
                                 !.current_is_table = context.is_table,
                                 !.refined_log = Append(@, refined.text),
                                 !.reconciler_calls = @ \o refined.reconciled]
    /\ UNCHANGED <<doc, chunks>>
    /\ UNCHANGED <<other, ckVars, fnVars>>

\* the loop is over: OCR_COMPLETED
get_ocr_of_images_completed ==
    /\ run.pc = "ocr_loop"
    /\ run.index = Len(run.images.val)
    /\ doc' = update_processed_file(doc, [status |-> "OCR_COMPLETED"])
    /\ run' = NextBlock(WriteStatus(run, "OCR_COMPLETED"))
    /\ UNCHANGED <<pages, chunks>>
    /\ UNCHANGED <<other, ckVars, fnVars>>

\* ------------------------------------------------- pipeline: aggregate
\* the text model's sentences for the j-th table
TableText(j) == <<Line("prose", 0, j, FALSE)>>

\* convert_tables_to_texts: one call of the text model per table, in order
convert_tables_to_texts(tables) == [j \in 1..Len(tables) |-> TableText(j)]

\* the tables integrate_messages hands to convert_tables_to_texts
TablesToConvert(extracted_images) ==
    get_markdown_headers_and_tables(JoinTexts(extracted_images)).tables

\* every page scanned and its tables replaced on its own, then the join
RECURSIVE integrate_messages_PerPage(_)
integrate_messages_PerPage(extracted_images) ==
    IF extracted_images = <<>> THEN <<>>
    ELSE replace_tables(Head(extracted_images),
             convert_tables_to_texts(
                 get_markdown_headers_and_tables(Head(extracted_images)).tables))
         \o integrate_messages_PerPage(Tail(extracted_images))

\* integrate_messages, given the texts the text model returns for the tables
integrate_messages(extracted_images) ==
    LET complete_markdown == JoinTexts(extracted_images)
        scan == get_markdown_headers_and_tables(complete_markdown)
    IN  IF Len(scan.tables) > 0
        THEN replace_tables(complete_markdown, convert_tables_to_texts(scan.tables))
        ELSE complete_markdown

\* ------------------------------------------ the page's context message
\* a message is the sequence of the parts appended to user_message
Part(name, body) == [part |-> name, body |-> body]

\* s[:-1]
DropLast(s) == IF s = <<>> THEN <<>> ELSE SubSeq(s, 1, Len(s) - 1)

\* the start-of-document instruction given whenever there is no header
create_context_user_message_NoHeaders(filename, headers, tables, ocr_text, is_table) ==
    (IF filename # NoValue THEN <<Part("filename", filename.val)>> ELSE <<>>)
    \o (IF ocr_text # NoValue THEN <<Part("ocr_text", ocr_text.val)>> ELSE <<>>)
    \o (IF headers = <<>> THEN <<Part("start_of_document", <<>>)>> ELSE <<>>)
    \o (IF headers # <<>> THEN <<Part("layout", headers)>> ELSE <<>>)
    \o (IF tables # <<>> THEN <<Part("table", DropLast(DropLast(tables)))>>
        ELSE <<>>)

\* create_context_user_message: the ifs in their order
create_context_user_message(filename, headers, tables, ocr_text, is_table) ==
    (IF filename # NoValue THEN <<Part("filename", filename.val)>> ELSE <<>>)
    \o (IF ocr_text # NoValue THEN <<Part("ocr_text", ocr_text.val)>> ELSE <<>>)
    \o (IF headers = <<>> /\ tables = <<>>
        THEN <<Part("start_of_document", <<>>)>> ELSE <<>>)
    \o (IF headers # <<>> THEN <<Part("layout", headers)>> ELSE <<>>)
    \o (IF tables # <<>> THEN <<Part("table", DropLast(DropLast(tables)))>>
        ELSE <<>>)

\* the table blocks of a rolling context
ContextTables ==
    SeqsUpTo({<<Line("table", 0, 1, FALSE)>>,
              <<Line("table", 0, 1, FALSE), Line("table", 0, 2, FALSE)>>}, MaxHeaders)

ContextInit ==
    /\ PipelineIdle
    /\ ChunkerIdle
    /\ fn_args \in [filename : {Some(FILENAME)},
                    headers : SeqsUpTo(HeaderLines, MaxHeaders),
                    tables : ContextTables,
                    ocr_text : {NoValue, Some(<<Line("text", 0, 1, FALSE)>>)},
                    is_table : BOOLEAN]
    /\ fn_ret = NoValue

\* the call returns
create_context_user_message_return ==
    /\ fn_ret = NoValue
    /\ fn_ret' = Some(create_context_user_message(fn_args.filename, fn_args.headers,
                          fn_args.tables, fn_args.ocr_text, fn_args.is_table))
    /\ UNCHANGED <<pipeVars, ckVars, fn_args>>

SpecContext == ContextInit /\ [][create_context_user_message_return]_vars

\* --------------------------------------- one page's completion call
\* "Error: Could not parse LLM response."
ParseErrorText == <<Line("error", 0, 0, FALSE)>>

\* what send_request ends with: it raises, or it returns the JSON of the
\* response, which has no "choices" key, an empty list of choices, or a
\* first choice with a message content
SendRequestOutcomes ==
    {[raises |-> TRUE, choices |-> NoValue]}
    \cup {[raises |-> FALSE, choices |-> c] :
             c \in {NoValue, Some(<<>>)}
                   \cup {Some(<<content>>) : content \in SeqsUpTo(ReplyLines, MaxReply)}}

\* response_json["choices"][0]["message"]["content"], or the error text
\* when this raises KeyError, IndexError or TypeError
extract_response_message(response_json) ==
    IF response_json.choices = NoValue \/ response_json.choices.val = <<>>
    THEN ParseErrorText
    ELSE response_json.choices.val[1]

CompletionInit ==
    /\ PipelineIdle
    /\ ChunkerIdle
    /\ fn_args \in [response : SendRequestOutcomes]
    /\ fn_ret = NoValue

\* process_image for one page: get_completion, the fence filter, the scan,
\* the update of the page row; raised names the exception that leaves it
process_image_return ==
    /\ fn_ret = NoValue
    /\ LET ocr_response ==
               remove_lines_starting_with(extract_response_message(fn_args.response))
           refined == refine_headers(ocr_response, <<>>)
       IN  fn_ret' =
               IF fn_args.response.raises
               THEN Some([raised |-> "RequestException"])
               ELSE IF IsBlankText(ocr_response)
               THEN Some([raised |-> "ValueError"])
               ELSE IF ~ValidTables(refined.tables)
               THEN Some([raised |-> "ValidationError"])
               ELSE Some([page |-> update_extracted_image(NewPage(1), refined)])
    /\ UNCHANGED <<pipeVars, ckVars, fn_args>>

SpecCompletion == CompletionInit /\ [][process_image_return]_vars

\* ----------------------------------------- integrate_messages on its own
MaxPageLen == 2
MaxTexts == 2

\* the lines of the refined page texts
PageTextLines ==
    {Line("table", 0, 1, FALSE), Line("table", 0, 2, FALSE), Line("text", 0, 1, FALSE)}

\* the refined texts of the pages, none of them empty
IntegrateInit ==
    /\ PipelineIdle
    /\ ChunkerIdle
    /\ fn_args \in [extracted_images :
                       SeqsUpTo(SeqsUpTo(PageTextLines, MaxPageLen) \ {<<>>}, MaxTexts)]
    /\ fn_ret = NoValue

\* the call returns; textualized is what went to the text model
integrate_messages_return ==
    /\ fn_ret = NoValue
    /\ fn_ret' = Some([text |-> integrate_messages(fn_args.extracted_images),
                       textualized |-> TablesToConvert(fn_args.extracted_images)])
    /\ UNCHANGED <<pipeVars, ckVars, fn_args>>

SpecIntegrate == IntegrateInit /\ [][integrate_messages_return]_vars

\* the if-block of process_pdf and aggregate_texts up to the file write
aggregate_texts ==
    /\ AtBlock("aggregate")
    /\ Wants(run.steps, "aggregate")
    /\ \E text_model_ok \in BOOLEAN :
       IF run.images = NoValue
       THEN /\ run' = Raise(run, "UnboundLocalError")
            /\ UNCHANGED doc
       ELSE LET images == ImagesOrStored(run.images.val)
                texts == [i \in 1..Len(images) |-> pages[images[i]].refined_ocr_text]
                joined == JoinTexts([i \in 1..Len(texts) |-> texts[i].val])
            IN  IF images = <<>>
                THEN /\ run' = Raise(run, "AssertionError")
                     /\ UNCHANGED doc
                ELSE IF \E i \in 1..Len(texts) : texts[i] = NoValue
                THEN /\ run' = Raise(EnterStage(run, "aggregate"), "TypeError")
                     /\ UNCHANGED doc
                ELSE IF IsBlankText(joined)
                THEN /\ run' = Raise(EnterStage(run, "aggregate"), "ValueError")
                     /\ UNCHANGED doc
                ELSE IF Len(get_markdown_headers_and_tables(joined).tables) > 0
                        /\ ~text_model_ok
                THEN /\ run' = Raise(EnterStage(run, "aggregate"), "CompletionError")
                     /\ UNCHANGED doc
                ELSE /\ doc' = update_processed_file(doc,
                                   [status |-> "TEXT_AGGREGATION_IN_PROGRESS"])
                     /\ run' = [WriteStatus(EnterStage(run, "aggregate"),
                                            "TEXT_AGGREGATION_IN_PROGRESS")
                                   EXCEPT !.pc = "aggregate_save",
                                          !.images = Some(images),
                                          !.complete_text =
                                              integrate_messages(
                                                  [i \in 1..Len(texts) |-> texts[i].val])]
    /\ UNCHANGED <<pages, chunks>>
    /\ UNCHANGED <<other, ckVars, fnVars>>

\* the file-artifact collaborator persists the aggregated text, or raises
save_to_filesystem == BOOLEAN

\* the markdown file is written (or the write raises), then TEXT_AGGREGATED
aggregate_texts_saved ==
    /\ run.pc = "aggregate_save"
    /\ \E written \in save_to_filesystem :
       IF written
       THEN /\ doc' = update_processed_file(doc,
                          [status |-> "TEXT_AGGREGATED",
                           aggregated_text |-> Some(run.complete_text)])
            /\ run' = NextBlock(WriteStatus(run, "TEXT_AGGREGATED"))
       ELSE /\ run' = Raise(run, "OSError")
            /\ UNCHANGED doc
    /\ UNCHANGED <<pages, chunks>>
    /\ UNCHANGED <<other, ckVars, fnVars>>

\* ----------------------------------------------------- pipeline: chunk
\* io.StringIO(None) reads as the empty text
StringIO(text) == IF text = NoValue THEN <<>> ELSE text.val

\* TextChunkCreate(chunk_text=chunks[i], chunk_title=chunk_titles[i])
TextChunkRows(out) ==
    [i \in 1..Len(out.chunk_texts) |->
        [chunk_text |-> out.chunk_texts[i], chunk_title |-> out.chunk_titles[i]]]

\* the file-artifact collaborator's directory deletion reports success or not
delete_dir == BOOLEAN

\* the if-block of process_pdf and convert_to_chunks up to the split:
\* CHUNKING_IN_PROGRESS, the old chunk rows and files deleted; a reported
\* failure of either deletion is only logged
convert_to_chunks ==
    /\ AtBlock("chunk")
    /\ Wants(run.steps, "chunk")
    /\ \E is_deleted \in delete_dir : is_deleted \in BOOLEAN
    /\ doc' = update_processed_file(doc, [status |-> "CHUNKING_IN_PROGRESS"])
    /\ \E remaining \in bulk_delete_and_commit(chunks) : chunks' = remaining
    /\ run' = [WriteStatus(EnterStage(run, "chunk"), "CHUNKING_IN_PROGRESS")
                  EXCEPT !.pc = "chunk_split", !.chunks_before = chunks]
    /\ UNCHANGED pages
    /\ UNCHANGED <<other, ckVars, fnVars>>

\* an assertion that is not evaluated
SameLength_NotAsserted(out) == TRUE

\* assert len(chunks) == len(chunk_titles)
SameLength(out) == Len(out.chunk_texts) = Len(out.chunk_titles)

\* the split, the cardinality assertion, CHUNKING_COMPLETED, the chunk rows
\* (chunk_titles[i] for i in range(len(chunks)))
convert_to_chunks_split ==
    /\ run.pc = "chunk_split"
    /\ LET out == convert_text_to_chunks(FILENAME, StringIO(doc.aggregated_text))
       IN  IF ~SameLength(out)
           THEN /\ run' = Raise(run, "AssertionError")
                /\ UNCHANGED <<doc, chunks>>
           ELSE IF Len(out.chunk_texts) > Len(out.chunk_titles)
           THEN /\ doc' = update_processed_file(doc, [status |-> "CHUNKING_COMPLETED"])
                /\ run' = Raise(WriteStatus(run, "CHUNKING_COMPLETED"), "IndexError")
                /\ UNCHANGED chunks
           ELSE /\ doc' = update_processed_file(doc, [status |-> "CHUNKING_COMPLETED"])
                /\ chunks' = chunks \o TextChunkRows(out)
                /\ run' = [WriteStatus(run, "CHUNKING_COMPLETED")
                              EXCEPT !.pc = "chunk_files", !.result_chunks = out]
    /\ UNCHANGED pages
    /\ UNCHANGED <<other, ckVars, fnVars>>

\* the file-artifact collaborator persists the chunk bodies, or raises
convert_chunks_to_files == BOOLEAN

\* the chunk files are written (or the write raises), then COMPLETED
convert_to_chunks_completed ==
    /\ run.pc = "chunk_files"
    /\ \E written \in convert_chunks_to_files :
       IF written
       THEN /\ doc' = update_processed_file(doc, [status |-> "COMPLETED"])
            /\ run' = NextBlock([WriteStatus(run, "COMPLETED")
                                    EXCEPT !.files_written = run.result_chunks.chunk_texts])
       ELSE /\ run' = Raise(run, "OSError")
            /\ UNCHANGED doc
    /\ UNCHANGED <<pages, chunks>>
    /\ UNCHANGED <<other, ckVars, fnVars>>

\* ------------------------------------------------ pipeline: behaviours
Init == PipelineIdle /\ ChunkerIdle /\ CallIdle

Next ==
    \/ \E steps \in SeqsUpTo(ProcessingSteps, MaxSteps) : process_pdf_document(steps)
    \/ background_pdf_processing_worker
    \/ process_pdf_skip
    \/ process_pdf_return
    \/ background_pdf_processing_worker_except
    \/ convert_to_images
    \/ convert_to_images_created
    \/ get_ocr_of_images
    \/ call_ocr
    \/ process_image
    \/ get_ocr_of_images_completed
    \/ aggregate_texts
    \/ aggregate_texts_saved
    \/ convert_to_chunks
    \/ convert_to_chunks_split
    \/ convert_to_chunks_completed

Spec == Init /\ [][Next]_vars

\* ------------------------------------- two worker threads, one document
\* the worker is a plain function, so the background task of each request
\* runs in a thread of the pool; the thread that takes steps changes between
\* any two store calls
run_in_threadpool ==
    /\ run' = other
    /\ other' = run
    /\ UNCHANGED storeVars
    /\ UNCHANGED <<ckVars, fnVars>>

\* the requests made while two threads are looked at
ConcurrentSteps == {<<"scan">>, <<"chunk">>}

ConcurrentNext ==
    \/ \E steps \in ConcurrentSteps : process_pdf_document(steps)
    \/ background_pdf_processing_worker
    \/ process_pdf_skip
    \/ process_pdf_return
    \/ background_pdf_processing_worker_except
    \/ convert_to_images
    \/ convert_to_images_created
    \/ convert_to_chunks
    \/ convert_to_chunks_split
    \/ convert_to_chunks_completed
    \/ run_in_threadpool

SpecConcurrent == Init /\ [][ConcurrentNext]_vars

\* -------------------------------------------------- pipeline properties
\* the run that was requested last has ended (returned or failed)
RunEnded == run.pc = "idle" /\ run.result # NoValue

\* the linear order of the statuses a run writes
StatusRank(status) ==
    CASE status = "IMAGE_EXTRACTION_IN_PROGRESS" -> 1
      [] status = "IMAGES_EXTRACTED" -> 2
      [] status = "OCR_IN_PROGRESS" -> 3
      [] status = "OCR_COMPLETED" -> 4
      [] status = "TEXT_AGGREGATION_IN_PROGRESS" -> 5
      [] status = "TEXT_AGGREGATED" -> 6
      [] status = "CHUNKING_IN_PROGRESS" -> 7
      [] status = "CHUNKING_COMPLETED" -> 8
      [] status = "COMPLETED" -> 9

\* the fixed order of the stages
StageRank(stage) ==
    CASE stage = "scan" -> 1
      [] stage = "ocr" -> 2
      [] stage = "aggregate" -> 3
      [] stage = "chunk" -> 4

Requested(stage) == stage \in Range(run.steps) \/ "complete" \in Range(run.steps)

\* C1: within one run of process_pdf the stages that execute are requested
\* ones (Complete requests all four) and execute in the order Scan, Ocr,
\* Aggregate, Chunk whatever the order of the request; a run that returns
\* has executed every requested stage; and every status the run writes is
\* strictly later in the linear order than the one it wrote before.
C1_StagesAndStatusesInOrder ==
    /\ \A i \in 1..Len(run.stage_log) : Requested(run.stage_log[i])
    /\ \A i \in 1..(Len(run.stage_log) - 1) :
          StageRank(run.stage_log[i]) < StageRank(run.stage_log[i + 1])
    /\ \A i \in 1..(Len(run.status_log) - 1) :
          StatusRank(run.status_log[i]) < StatusRank(run.status_log[i + 1])
    /\ run.result = Some("returned") =>
          \A stage \in {"scan", "ocr", "aggregate", "chunk"} :
              Requested(stage) => stage \in Range(run.stage_log)

\* a run requested as (Ocr, Scan) ran Scan, then Ocr, and returned
C1_Witness ==
    /\ run.result = Some("returned")
    /\ run.steps = <<"ocr", "scan">>
    /\ run.stage_log = <<"scan", "ocr">>
    /\ Len(run.status_log) = 4

\* C2: a run that requests only Ocr, or only Aggregate, fails before it
\* processes anything only when no pages are stored for the document.
C2_StageOnlyRunLoadsPages ==
    (/\ RunEnded
     /\ run.steps \in {<<"ocr">>, <<"aggregate">>}
     /\ run.result = Some("failed")
     /\ run.stage_log = <<>>)
    => pages = <<>>

\* C3: a run that requests only Chunk on a document whose aggregated text is
\* null fails, creates no chunk rows and never makes the status
\* ChunkingCompleted or Completed.
C3_ChunkOnlyWithoutTextFails ==
    (run.steps = <<"chunk">> /\ doc.aggregated_text = NoValue)
    => /\ doc.status \notin {"CHUNKING_COMPLETED", "COMPLETED"}
       /\ RunEnded => (run.result # Some("returned") /\ chunks = <<>>)

\* the page whose completion call raised, and the pages of the run
FailedPage == run.ocr_calls[Len(run.ocr_calls)].page_number

\* C4: when the completion call for page k raised in the Ocr stage, after
\* the run the status is Failed with the error recorded, every page before
\* k holds the refined text persisted in this run, page k and the later
\* pages got none (they are as they were when the stage began), and neither
\* Aggregate nor Chunk executed.
C4_CompletionFailureStopsRun ==
    (RunEnded /\ run.exc = Some("CompletionError") /\ run.ocr_calls # <<>>)
    => /\ doc.status = "FAILED"
       /\ doc.error_message = Some("CompletionError")
       /\ run.result = Some("failed")
       /\ \A n \in 1..Len(pages) :
             IF n < FailedPage
             THEN pages[n].refined_ocr_text = Some(run.refined_log[n])
             ELSE pages[n] = run.ocr_calls[1].stored[n]
       /\ run.stage_log[Len(run.stage_log)] = "ocr"
       /\ run.status_log[Len(run.status_log)] = "OCR_IN_PROGRESS"

\* three pages, the call for page 2 raised
C4_Witness ==
    /\ RunEnded
    /\ run.exc = Some("CompletionError")
    /\ Len(pages) = 3
    /\ Len(run.ocr_calls) = 2
    /\ pages[1].refined_ocr_text # NoValue
    /\ pages[2].refined_ocr_text = NoValue
    /\ pages[3].refined_ocr_text = NoValue
    /\ doc.status = "FAILED"

\* the header/table/ends-in-table snapshot persisted in a page row
Snapshot(row) ==
    [headers |-> row.headers.val, tables |-> row.tables.val,
     is_table |-> row.is_table.val]

CallContext(call) ==
    [headers |-> call.headers, tables |-> call.tables, is_table |-> call.is_table]

\* C5: the completion calls of the Ocr stage are issued for pages 1, 2, 3, ...
\* in that order, one at a time; the call for page 1 gets empty context;
\* when the call for page N+1 is issued, page N's refined text and snapshot
\* are in the store and the call's context is exactly that snapshot.
C5_SequentialRollingContext ==
    \A i \in 1..Len(run.ocr_calls) :
        LET call == run.ocr_calls[i]
        IN  /\ call.page_number = i
            /\ i = 1 => CallContext(call) =
                            [headers |-> <<>>, tables |-> <<>>, is_table |-> FALSE]
            /\ i > 1 => /\ call.stored[i - 1].refined_ocr_text # NoValue
                        /\ call.stored[i - 1].headers # NoValue
                        /\ CallContext(call) = Snapshot(call.stored[i - 1])

\* the call for page 3 got page 2's headers, which are not page 1's
C5_Witness ==
    /\ Len(run.ocr_calls) = 3
    /\ run.ocr_calls[2].headers # <<>>
    /\ run.ocr_calls[3].headers # <<>>
    /\ run.ocr_calls[3].headers # run.ocr_calls[2].headers
    /\ run.ocr_calls[3].headers = pages[2].headers.val

\* the Chunk stage of this run has been entered
InChunkStage == "chunk" \in Range(run.stage_log)

\* what the chunker returns for the document's aggregated text
ChunkerResult == convert_text_to_chunks(FILENAME, StringIO(doc.aggregated_text))

\* C13: once the Chunk stage runs on a text for which the chunker returns a
\* number of chunks different from the number of titles, the stage aborts:
\* the run creates no chunk row and writes no chunk file, the status never
\* becomes ChunkingCompleted or Completed, and the run ends failed.
C13_MismatchAbortsChunkStage ==
    (/\ InChunkStage
     /\ Len(ChunkerResult.chunk_texts) # Len(ChunkerResult.chunk_titles))
    => /\ chunks \in {<<>>, run.chunks_before}
       /\ run.files_written = <<>>
       /\ doc.status \in {"CHUNKING_IN_PROGRESS", "FAILED"}
       /\ "CHUNKING_COMPLETED" \notin Range(run.status_log)
       /\ "COMPLETED" \notin Range(run.status_log)
       /\ RunEnded => run.result = Some("failed")

\* the assertion failed on a text with one more chunk than titles
C13_Witness ==
    /\ RunEnded
    /\ InChunkStage
    /\ run.exc = Some("AssertionError")
    /\ Len(ChunkerResult.chunk_texts) = 1
    /\ Len(ChunkerResult.chunk_titles) = 0
    /\ doc.status = "FAILED"

\* C14: after a Chunk stage that succeeded, the stored chunk rows are
\* exactly the chunks produced by that run.
C14_ChunksAreThoseOfTheRun ==
    (run.result = Some("returned") /\ InChunkStage)
    => chunks = TextChunkRows(ChunkerResult)

\* the pages a Scan stage of this run rasterized
ScanDone == "IMAGES_EXTRACTED" \in Range(run.status_log)

Lifecycle ==
    <<"PENDING", "QUEUED_FOR_PROCESSING", "IMAGE_EXTRACTION_IN_PROGRESS",
      "IMAGES_EXTRACTED", "OCR_IN_PROGRESS", "OCR_COMPLETED",
      "TEXT_AGGREGATION_IN_PROGRESS", "TEXT_AGGREGATED", "CHUNKING_IN_PROGRESS",
      "CHUNKING_COMPLETED", "COMPLETED">>

LifecyclePosition(status) == CHOOSE i \in 1..Len(Lifecycle) : Lifecycle[i] = status

\* C16: over any sequence of requests and runs the status never moves to an
\* earlier state of the lifecycle, and a Failed status stays Failed.
C16_StatusNeverMovesBack ==
    [][IF doc.status = "FAILED"
       THEN doc'.status = "FAILED"
       ELSE \/ doc'.status = "FAILED"
            \/ LifecyclePosition(doc'.status) >= LifecyclePosition(doc.status)]_vars

\* process_pdf raised at the head of a stage's if-block: no stored page
PreconditionNotMet ==
    /\ run.pc = "raise"
    /\ run.exc = Some("AssertionError")
    /\ STAGE_ORDER[run.stage] \notin Range(run.stage_log)

\* C17: when a requested stage finds its precondition not met (no page, no
\* aggregated text) the invocation fails and the status the run leaves is
\* the one the document had when the stage was invoked.
C17_FailedPreconditionKeepsStatus ==
    [][/\ PreconditionNotMet => doc'.status = doc.status
       /\ (/\ AtBlock("chunk")
           /\ Wants(run.steps, "chunk")
           /\ doc.aggregated_text = NoValue)
          => (run'.pc = "raise" /\ doc'.status = doc.status)]_vars

\* a worker that is inside process_pdf or in its except clause
Running(r) == r.pc \notin {"idle", "queued"}

\* C18: at no time are two pipeline runs active on the document: while one
\* worker is inside process_pdf no second worker is.
C18_OneRunAtATime == ~(Running(run) /\ Running(other))

\* C23: a page processed with rolling headers has the reconciler run on
\* (rolling headers, scanned headers) and its result persisted; a page
\* processed without rolling headers has the scanned headers persisted and
\* no reconciler call.
C23_ReconcilerRunsOnRollingHeaders ==
    \A i \in 1..Len(run.refined_log) :
        LET rolling == run.ocr_calls[i].headers
            scanned == get_markdown_headers_and_tables(run.refined_log[i]).headers
        IN  IF rolling # <<>>
            THEN \E c \in Range(run.reconciler_calls) :
                     c.headers = rolling /\ c.new_headers = scanned
            ELSE run.reconciler_calls = <<>>

\* the status a run leaves when its last requested stage completed
LastStageStatus(steps) ==
    IF Wants(steps, "chunk") THEN {"COMPLETED"}
    ELSE IF Wants(steps, "aggregate") THEN {"TEXT_AGGREGATED"}
    ELSE IF Wants(steps, "ocr") THEN {"OCR_COMPLETED"}
    ELSE IF Wants(steps, "scan") THEN {"IMAGES_EXTRACTED"}
    ELSE {}

\* C26: a run that was dispatched and has ended leaves the document with
\* the completed status of its last requested stage, or Failed with the
\* error message recorded; never queued or in progress.
C26_EndedRunLeavesFinalStatus ==
    RunEnded =>
        \/ doc.status \in LastStageStatus(run.steps)
        \/ doc.status = "FAILED" /\ doc.error_message # NoValue

\* C28: once a Scan stage has completed, the document holds no aggregated
\* text and no chunk rows of the pages it replaced: none at all until the
\* same run aggregates, respectively chunks, again.
C28_RescanInvalidatesDownstream ==
    ScanDone =>
        /\ "aggregate" \notin Range(run.stage_log) => doc.aggregated_text = NoValue
        /\ "chunk" \notin Range(run.stage_log) => chunks = <<>>

C30_ErrorOnlyWhileFailed ==
    (run.result = Some("returned") /\ doc.status # "FAILED")
    => doc.error_message = NoValue

\* --------------------------------------------------- chunker properties
Returned == ck_out # NoValue

RECURSIVE Flatten(_)
Flatten(ss) == IF ss = <<>> THEN <<>> ELSE Head(ss) \o Flatten(Tail(ss))

IsBodyLine(line) == line.kind = "text"

\* a header line the chunker may cut at
IsCutHeader(line) == StartsWithHash(line) /\ line.lvl <= ck_cutoff

\* the step just taken consumed the line at ck_pos + 1
Consumed == ck_pos' = ck_pos + 1

Opened == Len(ck'.chunks) = Len(ck.chunks) + 1

\* C6: for every filename, markdown text and cutoff the chunker returns as
\* many chunk bodies as raw titles and as clean titles.
C6_SameCardinality ==
    Returned =>
        /\ Len(ck_out.chunk_texts) = Len(ck_out.chunk_titles)
        /\ Len(ck_out.chunk_titles) = Len(ck_out.clean_chunk_titles)

\* C7: a header line at level L <= cutoff closes the current chunk and opens
\* a new one whenever the current chunk holds content beyond its seed; a
\* header line at level L > cutoff never opens a new chunk.
C7_ChunkBoundaryLaw ==
    [][(Consumed /\ StartsWithHash(ck_text[ck_pos + 1])) =>
          IF ck_text[ck_pos + 1].lvl <= ck_cutoff
          THEN (Len(ck.current_chunk) > ck_seed) => Opened
          ELSE ~Opened]_vars

\* C8: a text (of at least one line) without a header line at or below the
\* cutoff yields exactly one chunk: the filename followed by every line of
\* the text.
C8_NoCutHeaderOneChunk ==
    (/\ Returned
     /\ ck_text # <<>>
     /\ \A i \in 1..Len(ck_text) : ~IsCutHeader(ck_text[i])) =>
        ck_out.chunk_texts = << <<FILENAME>> \o StripAll(ck_text) >>

\* C9: every non-header line of the input appears, trimmed, in exactly one
\* emitted chunk, in input order.
C9_NoBodyLineLost ==
    Returned =>
        SelectSeq(Flatten(ck_out.chunk_texts), IsBodyLine)
            = SelectSeq(StripAll(ck_text), IsBodyLine)

\* index of the most recent header of level l among the first n lines, or 0
LastHeaderAt(l, n) ==
    LET S == {i \in 1..n : StartsWithHash(ck_text[i]) /\ ck_text[i].lvl = l}
    IN  IF S = {} THEN 0 ELSE CHOOSE i \in S : \A j \in S : j <= i

\* that header has not been ended by a shallower header since
ActiveAt(l, n) ==
    /\ LastHeaderAt(l, n) # 0
    /\ \A j \in (LastHeaderAt(l, n) + 1)..n :
           ~(StartsWithHash(ck_text[j]) /\ ck_text[j].lvl < l)

RECURSIVE AncestorChain(_, _, _)
AncestorChain(l, top, n) ==
    IF l > top THEN <<>>
    ELSE (IF ActiveAt(l, n) THEN <<Strip(ck_text[LastHeaderAt(l, n)])>> ELSE <<>>)
         \o AncestorChain(l + 1, top, n)

\* C10: a chunk opened by a header at level L <= cutoff starts with the
\* filename followed by the active ancestor chain of levels 1..L, one line
\* per level, in ascending level order.
C10_BreadcrumbIsAncestorChain ==
    [][(Consumed /\ Opened) =>
          ck'.current_chunk =
              <<FILENAME>> \o AncestorChain(1, ck_text[ck_pos + 1].lvl, ck_pos + 1)]_vars

\* the header lines at or below the cutoff, in input order
CutHeaders == SelectSeq(StripAll(ck_text), IsCutHeader)

\* the shape of the lifecycle example: header at or below the cutoff, one
\* body line, header, body line, ...
SectionsText ==
    /\ Len(ck_text) >= 2
    /\ Len(ck_text) % 2 = 0
    /\ \A i \in 1..Len(ck_text) :
          IF i % 2 = 1 THEN IsCutHeader(ck_text[i]) ELSE IsBodyLine(ck_text[i])

\* C11: for a text made of sections (a header at or below the cutoff, then
\* its body line) the raw titles are those headers in order, there is one
\* chunk per title, and the i-th chunk contains the i-th header and the body
\* line that follows it.
C11_TitleOpensItsChunk ==
    (Returned /\ SectionsText) =>
        /\ ck_out.chunk_titles = CutHeaders
        /\ Len(ck_out.chunk_texts) = Len(ck_out.chunk_titles)
        /\ \A i \in 1..Len(ck_out.chunk_texts) :
              /\ Strip(ck_text[2 * i - 1]) \in Range(ck_out.chunk_texts[i])
              /\ Strip(ck_text[2 * i]) \in Range(ck_out.chunk_texts[i])

\* the cutoff has been detected from ck_text
Detected == ck_pos >= 0

HeaderIndexes(l) ==
    {i \in 1..Len(ck_text) : StartsWithHash(ck_text[i]) /\ ck_text[i].lvl = l}

LevelsSeen == {ck_text[i].lvl : i \in {j \in 1..Len(ck_text) : StartsWithHash(ck_text[j])}}

HeaderCount(l) == Cardinality(HeaderIndexes(l))

MostFrequent == {l \in LevelsSeen : \A m \in LevelsSeen : HeaderCount(m) <= HeaderCount(l)}

FirstIndex(l) == CHOOSE i \in HeaderIndexes(l) : \A j \in HeaderIndexes(l) : i <= j

\* the line at which level l reaches its final count
LastIndex(l) == CHOOSE i \in HeaderIndexes(l) : \A j \in HeaderIndexes(l) : j <= i

\* C12 as stated: the detected cutoff is a level of the highest count and,
\* among the levels tied for it, the one whose count reached it first.
C12_TieFirstToReachMax ==
    (Detected /\ LevelsSeen # {}) =>
        /\ ck_cutoff \in MostFrequent
        /\ \A l \in MostFrequent : LastIndex(ck_cutoff) <= LastIndex(l)

\* C12 amended: the detected cutoff is 0 for a text without header line;
\* otherwise it is a level of the highest count and, among the levels tied
\* for it, the one that occurs first in the text.
C12_TieFirstSeenLevel ==
    Detected =>
        IF LevelsSeen = {} THEN ck_cutoff = 0
        ELSE /\ ck_cutoff \in MostFrequent
             /\ \A l \in MostFrequent : FirstIndex(ck_cutoff) <= FirstIndex(l)

\* two levels tied at two headers each; the detected level was seen first
\* but reached its count last
C12_Witness ==
    /\ Detected
    /\ HeaderCount(1) = 2
    /\ HeaderCount(2) = 2
    /\ ck_cutoff = 2
    /\ LastIndex(1) < LastIndex(2)

\* -------------------------------------------- header reconciler property
\* C19: the reconciler returns as many headers as new_headers holds, and
\* gives new_headers back unchanged when the completion holds another
\* number of lines.
C19_ReconcilerKeepsCardinality ==
    fn_ret # NoValue =>
        /\ Len(fn_ret.val) = Len(fn_args.new_headers)
        /\ Len(fn_args.completion) # Len(fn_args.new_headers) => fn_ret.val = fn_args.new_headers

\* ------------------------------------------- table normalizer property
\* the i-th line of the text is a table row
IsRow(i) == StartsWithPipe(fn_args.markdown_text[i])

\* the i-th line opens a maximal run of table rows
OpensRun(i) == IsRow(i) /\ (i = 1 \/ ~IsRow(i - 1))

\* the number of the run the i-th line lies in
RunNumber(i) == Cardinality({j \in 1..i : OpensRun(j)})

\* what the i-th line becomes: the first row of the N-th run becomes the
\* N-th prose string, its other rows nothing, every other line itself
\* (trimmed); the rows of a run that has no prose string stay
Replacement(i) ==
    IF IsRow(i) /\ RunNumber(i) <= Len(fn_args.table_texts)
    THEN IF OpensRun(i) THEN fn_args.table_texts[RunNumber(i)] ELSE <<>>
    ELSE <<Strip(fn_args.markdown_text[i])>>

\* C20: replace_tables puts the N-th prose string in the place of the N-th
\* maximal run of table rows, once per run, and keeps every other line
\* (trimmed) in its order and in its place between the replaced runs.
C20_ReplaceTablesByPosition ==
    fn_ret # NoValue =>
        fn_ret.val = Flatten([i \in 1..Len(fn_args.markdown_text) |-> Replacement(i)])

\* two rows, a line, a row and two prose strings: prose, line, prose
C20_Witness ==
    /\ fn_ret # NoValue
    /\ fn_args.markdown_text = <<Line("table", 0, 1, FALSE), Line("table", 0, 2, FALSE),
                                 Line("text", 0, 2, TRUE), Line("table", 0, 1, FALSE)>>
    /\ Len(fn_args.table_texts) = 2
    /\ fn_ret.val = fn_args.table_texts[1] \o <<Line("text", 0, 2, FALSE)>>
                        \o fn_args.table_texts[2]

\* --------------------------------------------------- scanner properties
\* the scan returned a triple
Scanned == fn_ret # NoValue /\ "raised" \notin DOMAIN fn_ret.val

\* the i-th line of the scanned text starts with '|'
RowAt(i) == StartsWithPipe(fn_args.s[i])

\* the i-th line opens a maximal run of rows
RunOpensAt(i) == RowAt(i) /\ (i = 1 \/ ~RowAt(i - 1))

\* the lines that open a run, and the length of the run opened at i
RunOpenings == {i \in 1..Len(fn_args.s) : RunOpensAt(i)}

RunLength(i) ==
    Cardinality({j \in i..Len(fn_args.s) : \A k \in i..j : RowAt(k)})

\* the opening of the N-th run
NthOpening(N) ==
    CHOOSE i \in RunOpenings : Cardinality({j \in RunOpenings : j <= i}) = N

IsHeaderLine(line) == line.kind = "header"

\* C22: the headers of a scan are, in document order, exactly the lines
\* whose first non-whitespace run is one or more '#'.
C22_HeadersAreHashLines ==
    Scanned => fn_ret.val.headers = StripAll(SelectSeq(fn_args.s, IsHeaderLine))

\* ------------------------------------------ integrate_messages property
\* the refined page texts joined in page order
Concatenation == JoinTexts(fn_args.extracted_images)

RowIn(text, i) == StartsWithPipe(text[i])

OpensIn(text, i) == RowIn(text, i) /\ (i = 1 \/ ~RowIn(text, i - 1))

\* the number of the table block the i-th line lies in
BlockIn(text, i) == Cardinality({j \in 1..i : OpensIn(text, j)})

\* the rows of the N-th table block of a text
RowsOfBlock(text, N) ==
    SelectSeq([i \in 1..Len(text) |->
                  IF RowIn(text, i) /\ BlockIn(text, i) = N
                  THEN Strip(text[i]) ELSE Line("blank", 0, 0, FALSE)],
              LAMBDA line : line.kind = "table")

\* C24: the aggregated text is the page texts joined in page order with
\* every table block of the joined text replaced by the prose made for that
\* block: one prose request per block, every prose used once, in its place.
C24_AggregateReplacesEachBlockOnce ==
    fn_ret # NoValue /\ "textualized" \in DOMAIN fn_ret.val =>
        LET text == Concatenation
            blocks == Cardinality({i \in 1..Len(text) : OpensIn(text, i)})
        IN  /\ Len(fn_ret.val.textualized) = blocks
            /\ \A N \in 1..blocks : fn_ret.val.textualized[N] = RowsOfBlock(text, N)
            /\ fn_ret.val.text =
                  Flatten([i \in 1..Len(text) |->
                              IF ~RowIn(text, i) THEN <<Strip(text[i])>>
                              ELSE IF OpensIn(text, i) THEN TableText(BlockIn(text, i))
                              ELSE <<>>])

\* page 1 ends inside a table that page 2 continues: one block of two
\* rows, one prose text in its place
C24_Witness ==
    /\ fn_ret # NoValue
    /\ fn_args.extracted_images =
          << <<Line("text", 0, 1, FALSE), Line("table", 0, 1, FALSE)>>,
             <<Line("table", 0, 2, FALSE), Line("text", 0, 1, FALSE)>> >>
    /\ Len(fn_ret.val.textualized) = 1
    /\ fn_ret.val.text = <<Line("text", 0, 1, FALSE)>> \o TableText(1)
                            \o <<Line("text", 0, 1, FALSE)>>

\* ------------------------------------------- completion call property
\* the completion could not be obtained, or its response not parsed
CompletionFailed ==
    \/ fn_args.response.raises
    \/ fn_args.response.choices = NoValue
    \/ fn_args.response.choices.val = <<>>

\* C25: when the completion for a page could not be obtained or parsed,
\* process_image raises and the page gets no refined text.
C25_FailedCompletionIsNeverStored ==
    (fn_ret # NoValue /\ "response" \in DOMAIN fn_args /\ CompletionFailed)
    => "raised" \in DOMAIN fn_ret.val

\* ------------------------------------------- context message property
\* the message tells to treat the page as the start of the document
HasStartInstruction(message) ==
    \E i \in 1..Len(message) : message[i].part = "start_of_document"

\* C27: the context message holds the start-of-document instruction if and
\* only if there are no rolling headers and no rolling tables.
C27_StartInstructionIffNoContext ==
    (fn_ret # NoValue /\ "is_table" \in DOMAIN fn_args) =>
        (HasStartInstruction(fn_ret.val)
            <=> (fn_args.headers = <<>> /\ fn_args.tables = <<>>))

\* no header but a table of the last page: no start instruction
C27_Witness ==
    /\ fn_ret # NoValue
    /\ "is_table" \in DOMAIN fn_args
    /\ fn_args.headers = <<>>
    /\ fn_args.tables # <<>>
    /\ ~HasStartInstruction(fn_ret.val)

====
